---------------------------- MODULE Spec2Model ----------------------------
(***************************************************************************)
(* Model of the NVC exercises API: the credential store (api_keys table    *)
(* of NVCDatabase), the content repository and projector (exercises table, *)
(* getAllExercises, getExerciseById, transformToNVCExercise) and the       *)
(* request gate (authMiddleware and the two content routes).               *)
(*                                                                         *)
(* Strings that the code takes apart (keys, the Authorization header, the  *)
(* path identifier) are sequences of one-character strings; strings that   *)
(* the code only compares or copies are TLA+ strings.                      *)
(***************************************************************************)
EXTENDS Integers, Sequences, FiniteSets, TLC

VARIABLES
    api_keys,     \* rows of the api_keys table
    seq,          \* sqlite_sequence entry of api_keys (AUTOINCREMENT)
    clock,        \* CURRENT_TIMESTAMP
    slot,         \* per caller: the store call in flight
    issued,       \* history: id -> plaintext returned by createApiKey
    revoked,      \* history: ids for which deactivateApiKey returned true
    exercises,    \* rows of the exercises table, in storage (rowid) order
    req,          \* the content request in flight at the gate
    out           \* last result of a direct repository / projector call

vars == <<api_keys, seq, clock, slot, issued, revoked, exercises, req, out>>

-----------------------------------------------------------------------------
(* Bounds of the model *)

MaxKeys == 2       \* createApiKey calls that get as far as the INSERT
MaxClock == 2      \* seconds observed on CURRENT_TIMESTAMP

-----------------------------------------------------------------------------
(* JavaScript and SQL values *)

Undefined == "<undefined>"      \* JS undefined (absent query parameter, a[i] out of range)
Null == "<null>"                \* SQL NULL / JS null in a text column
NoTime == 0                     \* SQL NULL in a DATETIME column

\* JS truthiness of a string-or-absent value: undefined, null and "" are falsy.
Truthy(v) == v \notin {Undefined, Null, ""}

\* JS truthiness of a character sequence: "" is falsy.
TruthySeq(s) == s # <<>>

Range(s) == {s[i] : i \in 1..Len(s)}

DigitChars == <<"0", "1", "2", "3", "4", "5", "6", "7", "8", "9">>

\* Number.prototype.toString for a non-negative integer.
RECURSIVE IdToString(_)
IdToString(n) ==
    IF n < 10 THEN <<DigitChars[n + 1]>>
    ELSE IdToString(n \div 10) \o <<DigitChars[(n % 10) + 1]>>

DigitValue(c) == CHOOSE d \in 0..9 : DigitChars[d + 1] = c

\* /^\d+$/.test(id)
IsDigits(s) == Len(s) > 0 /\ \A i \in 1..Len(s) : s[i] \in Range(DigitChars)

\* Value of a digits-only text under SQLite's INTEGER affinity ('01' -> 1).
RECURSIVE ToInteger(_)
ToInteger(s) ==
    IF Len(s) = 0 THEN 0
    ELSE 10 * ToInteger(SubSeq(s, 1, Len(s) - 1)) + DigitValue(s[Len(s)])

-----------------------------------------------------------------------------
(* JSON text of an array of strings, as a token sequence:                  *)
(*   JSON.stringify(["a","b"]) = <<"[", "a", ",", "b", "]">>               *)

RECURSIVE JSONItems(_)
JSONItems(items) ==
    IF Len(items) = 0 THEN <<>>
    ELSE IF Len(items) = 1 THEN <<items[1]>>
    ELSE <<items[1], ",">> \o JSONItems(Tail(items))

JSONStringify(items) == <<"[">> \o JSONItems(items) \o <<"]">>

\* Mutant of JSONParse: the text returned unparsed.
JSONUnparsed(text) == text

\* JSON.parse of such a text: the elements between the brackets, commas dropped.
JSONParse(text) ==
    LET inner == SubSeq(text, 2, Len(text) - 1)
    IN  [i \in 1..((Len(inner) + 1) \div 2) |-> inner[2 * i - 1]]

\* a[i] in JavaScript: undefined past the end of the array.
JsIndex(a, i) == IF i \in 1..Len(a) THEN a[i] ELSE Undefined

-----------------------------------------------------------------------------
(* The exercises table *)

NoJson == <<>>     \* a NULL (or empty) JSON text column: falsy like ""

\* A row with only the NOT NULL columns set.
BlankExercise(id, type) ==
    [id |-> id, type |-> type,
     name_en |-> "name", name_zh |-> "mingcheng",
     description_en |-> "description", description_zh |-> "miaoshu",
     difficulty |-> Null, target_audience |-> Null,
     related_exercises |-> NoJson,
     scenario_en |-> Null, scenario_zh |-> Null,
     example_en |-> Null, example_zh |-> Null,
     nvc_alternative_en |-> Null, nvc_alternative_zh |-> Null,
     request_template_en |-> Null, request_template_zh |-> Null,
     gratitude_expression_en |-> Null, gratitude_expression_zh |-> Null,
     steps_en |-> NoJson, steps_zh |-> NoJson]

\* Rows a seed load can have put into the table (the schema constrains only
\* the NOT NULL columns; nothing relates steps_en to steps_zh).
ExercisePool ==
    << [BlankExercise(1, "gratitude") EXCEPT
            !.name_en = "Appreciation Practice", !.name_zh = "ganji lianxi",
            !.difficulty = "beginner", !.target_audience = "individual",
            !.gratitude_expression_en = "I appreciate when you",
            !.gratitude_expression_zh = "wo ganji ni"],
       [BlankExercise(2, "conflict-resolution") EXCEPT
            !.difficulty = "advanced", !.target_audience = "group",
            !.related_exercises = JSONStringify(<<"1", "77">>),
            !.steps_en = JSONStringify(<<"Create a safe space", "Share observations">>),
            !.steps_zh = JSONStringify(<<"chuangzao anquan kongjian", "fenxiang guancha">>)],
       [BlankExercise(3, "listening-barriers") EXCEPT
            !.difficulty = "beginner", !.target_audience = "group",
            !.example_en = "You should just", !.example_zh = "ni yinggai",
            !.nvc_alternative_en = "I hear that", !.nvc_alternative_zh = "wo tingdao",
            !.scenario_en = "only in English"],
       [BlankExercise(4, "requests") EXCEPT
            !.target_audience = "individual",
            !.request_template_en = "Would you be willing to",
            !.request_template_zh = "ni yuanyi ma",
            !.scenario_en = "At work", !.scenario_zh = "zai gongzuo zhong"],
       [BlankExercise(5, "conflict-resolution") EXCEPT
            !.difficulty = "advanced", !.target_audience = "group",
            !.steps_en = JSONStringify(<<"Listen">>),
            !.steps_zh = JSONStringify(<<"qingting", "huiying">>)],
       [BlankExercise(6, "gratitude") EXCEPT
            !.difficulty = "beginner", !.target_audience = "group",
            !.steps_en = JSONStringify(<<"Notice", "Say thanks">>),
            !.steps_zh = JSONStringify(<<"liuyi">>)],
       [BlankExercise(7, "needs-demands") EXCEPT
            !.difficulty = "intermediate", !.target_audience = "individual",
            !.example_en = "You never listen", !.example_zh = "ni conglai bu ting",
            !.nvc_alternative_en = "I need to be heard",
            !.gratitude_expression_zh = "xiexie",
            !.steps_en = JSONStringify(<<"Pause">>)] >>

\* The pool rows with an id in ids, in rowid order.
StoreOf(ids) == SelectSeq(ExercisePool, LAMBDA e : e.id \in ids)

PoolIds == {ExercisePool[i].id : i \in 1..Len(ExercisePool)}

-----------------------------------------------------------------------------
(* Content Repository: getAllExercises, getExerciseById *)

NoFilters == [type |-> Undefined, difficulty |-> Undefined, targetAudience |-> Undefined]

\* The conditions / params arrays: one <<column, value>> per truthy filter.
Conditions(filters) ==
    (IF Truthy(filters.type) THEN << <<"type", filters.type>> >> ELSE <<>>)
    \o (IF Truthy(filters.difficulty)
          THEN << <<"difficulty", filters.difficulty>> >> ELSE <<>>)
    \o (IF Truthy(filters.targetAudience)
          THEN << <<"target_audience", filters.targetAudience>> >> ELSE <<>>)

\* conditions.join(" OR "): the mutant of WhereAll.
WhereAny(row, conds) == \E i \in 1..Len(conds) : row[conds[i][1]] = conds[i][2]

\* conditions.join(" AND ") evaluated on one row.
WhereAll(row, conds) == \A i \in 1..Len(conds) : row[conds[i][1]] = conds[i][2]

getAllExercises(rows, filters) ==
    LET conds == Conditions(filters)
    IN  IF Len(conds) > 0
        THEN SelectSeq(rows, LAMBDA e : WhereAll(e, conds))
        ELSE rows

\* "SELECT * FROM exercises WHERE id = ?" with a text parameter: the INTEGER
\* column compares with the integer the text denotes; other text matches no row.
\* <<>> is the null result, <<row>> the row found.
getExerciseById(rows, id) ==
    LET found == IF IsDigits(id)
                 THEN SelectSeq(rows, LAMBDA e : e.id = ToInteger(id))
                 ELSE <<>>
    IN  IF Len(found) > 0 THEN <<found[1]>> ELSE <<>>

-----------------------------------------------------------------------------
(* Content Projector: transformToNVCExercise *)

\* A mutant of Localized: every language but "en" collapses to Chinese.
LocalizedDefaultZh(lang, en, zh) ==
    IF Truthy(lang)
    THEN (IF lang = "en" THEN en ELSE zh)
    ELSE [en |-> en, zh |-> zh]

\* The mutant of Localized: the two languages swapped when collapsing.
LocalizedSwapped(lang, en, zh) ==
    IF Truthy(lang)
    THEN (IF lang = "zh" THEN en ELSE zh)
    ELSE [en |-> en, zh |-> zh]

\* lang ? (lang === "zh" ? zh : en) : { en, zh }
Localized(lang, en, zh) ==
    IF Truthy(lang)
    THEN (IF lang = "zh" THEN zh ELSE en)
    ELSE [en |-> en, zh |-> zh]

\* Mutant of Optional: the property set without the test.
OptionalAlways(cond, field, value) == field :> value

\* A property set only under a condition: the empty object otherwise.
Optional(cond, field, value) == IF cond THEN field :> value ELSE <<>>

\* Mutant of StepsMap: the English step taken for both languages.
StepsMapEnglishTwice(stepsEn, stepsZh) ==
    [i \in 1..Len(stepsEn) |-> [en |-> stepsEn[i], zh |-> stepsEn[i]]]

\* stepsEn.map((step, i) => ({ en: step, zh: stepsZh[i] }))
StepsMap(stepsEn, stepsZh) ==
    [i \in 1..Len(stepsEn) |-> [en |-> stepsEn[i], zh |-> JsIndex(stepsZh, i)]]

StepsOut(e, lang) ==
    LET stepsEn == JSONParse(e.steps_en)
        stepsZh == JSONParse(e.steps_zh)
    IN  IF Truthy(lang)
        THEN (IF lang = "zh" THEN stepsZh ELSE stepsEn)
        ELSE StepsMap(stepsEn, stepsZh)

transformToNVCExercise(e, lang) ==
    [id |-> IdToString(e.id),
     type |-> e.type,
     name |-> Localized(lang, e.name_en, e.name_zh),
     description |-> Localized(lang, e.description_en, e.description_zh),
     difficulty |-> e.difficulty,
     targetAudience |-> e.target_audience]
    \* relatedExercises: undefined is a property the response does not carry
    @@ Optional(TruthySeq(e.related_exercises), "relatedExercises",
                JSONParse(e.related_exercises))
    @@ Optional(Truthy(e.scenario_en) /\ Truthy(e.scenario_zh), "scenario",
                Localized(lang, e.scenario_en, e.scenario_zh))
    @@ Optional(Truthy(e.example_en) /\ Truthy(e.example_zh), "example",
                Localized(lang, e.example_en, e.example_zh))
    @@ Optional(Truthy(e.nvc_alternative_en) /\ Truthy(e.nvc_alternative_zh),
                "nvcAlternative",
                Localized(lang, e.nvc_alternative_en, e.nvc_alternative_zh))
    @@ Optional(Truthy(e.request_template_en) /\ Truthy(e.request_template_zh),
                "requestTemplate",
                Localized(lang, e.request_template_en, e.request_template_zh))
    @@ Optional(Truthy(e.gratitude_expression_en) /\ Truthy(e.gratitude_expression_zh),
                "gratitudeExpression",
                Localized(lang, e.gratitude_expression_en, e.gratitude_expression_zh))
    @@ Optional(TruthySeq(e.steps_en) /\ TruthySeq(e.steps_zh), "steps",
                StepsOut(e, lang))

-----------------------------------------------------------------------------
(* Credential Store: keys and digests *)

KeyPrefix == <<"n", "v", "c", "_">>

KeyRandomChars == 32

\* const chars = "ABC...XYZabc...xyz0123456789"
chars ==
    <<"A", "B", "C", "D", "E", "F", "G", "H", "I", "J", "K", "L", "M",
      "N", "O", "P", "Q", "R", "S", "T", "U", "V", "W", "X", "Y", "Z",
      "a", "b", "c", "d", "e", "f", "g", "h", "i", "j", "k", "l", "m",
      "n", "o", "p", "q", "r", "s", "t", "u", "v", "w", "x", "y", "z",
      "0", "1", "2", "3", "4", "5", "6", "7", "8", "9">>

\* chars.charAt(index), index counted from 0.
CharAt(index) == IF index + 1 \in DOMAIN chars THEN chars[index + 1] ELSE ""

\* Values of Math.floor(Math.random() * chars.length) that the model draws.
SampleIndexes == {0, 59}

\* Characters of the 62-character alphabet that the model draws.
SampleChars == {CharAt(index) : index \in SampleIndexes}

\* Outcomes of the 32 Math.random() draws that the model follows: every
\* draw giving the same character.
RandomPicks == {[i \in 1..KeyRandomChars |-> c] : c \in SampleChars}

\* The loop of generateApiKey, pick[i + 1] being the character drawn at i.
RECURSIVE GenerateLoop(_, _, _)
GenerateLoop(i, result, pick) ==
    IF i < KeyRandomChars
    THEN GenerateLoop(i + 1, Append(result, pick[i + 1]), pick)
    ELSE result

\* Mutant of generateApiKey: the result starting empty.
generateApiKeyNoPrefix(pick) == GenerateLoop(0, <<>>, pick)

generateApiKey(pick) == GenerateLoop(0, KeyPrefix, pick)

KeyPool == {generateApiKey(pick) : pick \in RandomPicks}

\* Secrets a caller may present: every key the store can issue, the key of
\* the test script that is never issued, and the empty string.
InvalidKey ==
    <<"n", "v", "c", "_", "i", "n", "v", "a", "l", "i", "d", "_", "k", "e", "y",
      "_", "1", "2", "3", "4", "5">>

TokenPool == KeyPool \cup {InvalidKey, <<>>}

\* Mutant of hashApiKey: the key stored as it is.
PlainKey(key) == key

\* SHA-256 in hex. The digest is kept symbolic: an injective function of
\* the key (collision resistance) that is never equal to the key itself.
hashApiKey(key) == <<"sha256:">> \o key

NamePool == {"Demo", "Ops"}

\* The names a POST /admin/api-keys body can lack: no name, the empty name.
BlankNames == {Undefined, ""}

\* The createApiKey calls the model makes: the label "Demo" when the draws
\* give "A", the label "Ops" otherwise, so that two credentials of
\* different secrets also differ in their labels.
IssuePool == {c \in NamePool \X RandomPicks : (c[1] = "Demo") <=> (c[2][1] = "A")}

-----------------------------------------------------------------------------
(* Credential Store: the queries of createApiKey, validateApiKey,          *)
(* deactivateApiKey, getAllApiKeys on a set of rows                        *)

\* Mutant of NewRow: is_active defaulting to 0.
NewRowInactive(id, keyHash, name, now) ==
    [id |-> id, key_hash |-> keyHash, name |-> name,
     is_active |-> FALSE, created_at |-> now, last_used |-> NoTime]

NewRow(id, keyHash, name, now) ==
    [id |-> id, key_hash |-> keyHash, name |-> name,
     is_active |-> TRUE, created_at |-> now, last_used |-> NoTime]

\* Mutant of UniqueViolation: the column declared without UNIQUE.
NoUniqueConstraint(rows, keyHash) == FALSE

\* key_hash TEXT NOT NULL UNIQUE
UniqueViolation(rows, keyHash) == \E r \in rows : r.key_hash = keyHash

\* .get(): the first matching row as <<row>>, null as <<>>.
FirstOf(matching) == IF matching = {} THEN <<>> ELSE <<CHOOSE r \in matching : TRUE>>

\* Mutant of ValidateSelect: the is_active condition dropped.
SelectByHashOnly(rows, keyHash) == FirstOf({r \in rows : r.key_hash = keyHash})

\* Mutant of ValidateSelect: the key_hash condition dropped.
SelectAnyActive(rows, keyHash) == FirstOf({r \in rows : r.is_active})

\* "SELECT * FROM api_keys WHERE key_hash = ? AND is_active = 1"
ValidateSelect(rows, keyHash) ==
    FirstOf({r \in rows : r.key_hash = keyHash /\ r.is_active})

\* Mutant of ValidateTouch: the UPDATE left out.
NoTouch(rows, found, keyHash, now) == rows

\* Mutant of ValidateTouch: last_used updated by digest, found or not.
TouchByDigest(rows, found, keyHash, now) ==
    {IF r.key_hash = keyHash THEN [r EXCEPT !.last_used = now] ELSE r : r \in rows}

\* if (apiKey) "UPDATE api_keys SET last_used = CURRENT_TIMESTAMP WHERE id = ?"
ValidateTouch(rows, found, keyHash, now) ==
    IF Len(found) > 0
    THEN {IF r.id = found[1].id THEN [r EXCEPT !.last_used = now] ELSE r : r \in rows}
    ELSE rows

\* Mutant of DeactivateRows: the row deleted instead of updated.
DeleteRow(rows, id) == {r \in rows : r.id # id}

\* Mutant of DeactivateRows: the WHERE clause left out.
DeactivateEveryRow(rows, id) == {[r EXCEPT !.is_active = FALSE] : r \in rows}

\* Mutant of DeactivateRows: the flag toggled instead of cleared.
ToggleRows(rows, id) ==
    {IF r.id = id THEN [r EXCEPT !.is_active = ~r.is_active] ELSE r : r \in rows}

\* "UPDATE api_keys SET is_active = 0 WHERE id = ?"
DeactivateRows(rows, id) ==
    {IF r.id = id THEN [r EXCEPT !.is_active = FALSE] ELSE r : r \in rows}

\* Mutant of DeactivateChanges: only rows whose flag changes are counted.
ChangesIfActive(rows, id) == Cardinality({r \in rows : r.id = id /\ r.is_active})

\* result.changes: the rows the WHERE clause matched, whether or not the
\* stored value differs from the new one.
DeactivateChanges(rows, id) == Cardinality({r \in rows : r.id = id})

\* "SELECT * FROM api_keys ORDER BY created_at DESC": the orderings of the
\* rows by decreasing created_at (rows of one second in either order).
AllApiKeysOrders(rows) ==
    {s \in [1..Cardinality(rows) -> rows] :
        /\ \A i, j \in DOMAIN s : i # j => s[i] # s[j]
        /\ \A i, j \in DOMAIN s : i < j => s[i].created_at >= s[j].created_at}

-----------------------------------------------------------------------------
(* Credential Store: the calls.  A caller p runs one call at a time; the   *)
(* calls that await hashApiKey give way to other callers at that await and *)
(* run their queries in one step afterwards.                               *)

\* Two concurrent callers.
Procs == {"c1", "c2"}

IdleSlot ==
    [op |-> "none", pc |-> "idle", key |-> <<>>, name |-> "", id |-> 0,
     rows |-> <<>>, ok |-> FALSE, threw |-> FALSE,
     \* set.status and the error of a route's response (0, "": not a route)
     status |-> 0, error |-> "",
     \* history of the call, for the properties
     statusAtCall |-> "none", revokedAtCall |-> FALSE, revokedInFlight |-> FALSE]

\* What the table says about a presented secret.
KeyStatus(rows, key) ==
    IF \E r \in rows : r.key_hash = hashApiKey(key) /\ r.is_active THEN "active"
    ELSE IF \E r \in rows : r.key_hash = hashApiKey(key) THEN "revoked"
    ELSE "unknown"

\* What the table says about an id.
IdStatus(rows, id) ==
    IF \E r \in rows : r.id = id /\ r.is_active THEN "active"
    ELSE IF \E r \in rows : r.id = id THEN "revoked"
    ELSE "unknown"

\* The secret was issued for a credential whose revoke has returned true.
RevokedSecret(key) == \E id \in revoked : id \in DOMAIN issued /\ issued[id] = key

InFlightCreates == Cardinality({p \in Procs : slot[p].op = "createApiKey" /\ slot[p].pc = "hash"})

\* createApiKey up to its await: the key is generated.
CreateBegin(p, name, pick) ==
    /\ slot[p].pc = "idle"
    /\ seq + InFlightCreates < MaxKeys
    /\ slot' = [slot EXCEPT ![p] = [IdleSlot EXCEPT
                    !.op = "createApiKey", !.pc = "hash",
                    !.key = generateApiKey(pick), !.name = name]]
    /\ UNCHANGED <<api_keys, seq, clock, issued, revoked, exercises, req, out>>

\* createApiKey after the await: the INSERT ... RETURNING id, which throws
\* on a digest already in the table.
CreateInsert(p) ==
    /\ slot[p].op = "createApiKey" /\ slot[p].pc = "hash"
    /\ LET keyHash == hashApiKey(slot[p].key) IN
       IF UniqueViolation(api_keys, keyHash)
       THEN /\ slot' = [slot EXCEPT ![p].pc = "done", ![p].threw = TRUE]
            /\ UNCHANGED <<api_keys, seq, issued>>
       ELSE /\ api_keys' = api_keys \cup {NewRow(seq + 1, keyHash, slot[p].name, clock)}
            /\ seq' = seq + 1
            /\ issued' = issued @@ ((seq + 1) :> slot[p].key)
            /\ slot' = [slot EXCEPT ![p].pc = "done", ![p].id = seq + 1, ![p].ok = TRUE]
    /\ UNCHANGED <<clock, revoked, exercises, req, out>>

\* validateApiKey up to its await.
ValidateBegin(p, key) ==
    /\ slot[p].pc = "idle"
    /\ slot' = [slot EXCEPT ![p] = [IdleSlot EXCEPT
                    !.op = "validateApiKey", !.pc = "hash", !.key = key,
                    !.statusAtCall = KeyStatus(api_keys, key),
                    !.revokedAtCall = RevokedSecret(key)]]
    /\ UNCHANGED <<api_keys, seq, clock, issued, revoked, exercises, req, out>>

\* Mutant of ValidateFound: the status is the one read when the call began,
\* only the digest is looked up after the await.
ValidateFoundStale(p) ==
    IF slot[p].statusAtCall = "active"
    THEN SelectByHashOnly(api_keys, hashApiKey(slot[p].key))
    ELSE <<>>

\* The row validateApiKey gets from its SELECT, run on the table as it is
\* when the digest is known.
ValidateFound(p) == ValidateSelect(api_keys, hashApiKey(slot[p].key))

\* validateApiKey after the await: SELECT, the last_used UPDATE, return.
ValidateLookup(p) ==
    /\ slot[p].op = "validateApiKey" /\ slot[p].pc = "hash"
    /\ LET found == ValidateFound(p) IN
       /\ api_keys' = ValidateTouch(api_keys, found, hashApiKey(slot[p].key), clock)
       /\ slot' = [slot EXCEPT ![p].pc = "done", ![p].rows = found,
                                ![p].ok = Len(found) > 0]
    /\ UNCHANGED <<seq, clock, issued, revoked, exercises, req, out>>

\* deactivateApiKey: synchronous.
Deactivate(p, id) ==
    /\ slot[p].pc = "idle"
    /\ LET success == DeactivateChanges(api_keys, id) > 0
           hit(q) == /\ q # p
                     /\ slot[q].op = "validateApiKey" /\ slot[q].pc = "hash"
                     /\ success
                     /\ id \in DOMAIN issued /\ issued[id] = slot[q].key
       IN  /\ api_keys' = DeactivateRows(api_keys, id)
           /\ revoked' = IF success THEN revoked \cup {id} ELSE revoked
           /\ slot' = [q \in Procs |->
                  IF q = p
                  THEN [IdleSlot EXCEPT !.op = "deactivateApiKey", !.pc = "done",
                            !.id = id, !.ok = success,
                            !.statusAtCall = IdStatus(api_keys, id)]
                  ELSE IF hit(q) THEN [slot[q] EXCEPT !.revokedInFlight = TRUE]
                  ELSE slot[q]]
    /\ UNCHANGED <<seq, clock, issued, exercises, req, out>>

\* getAllApiKeys: synchronous.
GetAllApiKeys(p) ==
    /\ slot[p].pc = "idle"
    /\ \E order \in AllApiKeysOrders(api_keys) :
          slot' = [slot EXCEPT ![p] = [IdleSlot EXCEPT
                      !.op = "getAllApiKeys", !.pc = "done", !.rows = order, !.ok = TRUE]]
    /\ UNCHANGED <<api_keys, seq, clock, issued, revoked, exercises, req, out>>

\* Mutant of NameMissing: the name is not checked.
NameNeverMissing(name) == FALSE

\* !name || typeof name !== "string", for a name that is a string or absent.
NameMissing(name) == ~Truthy(name)

\* POST /admin/api-keys up to its await: the name is checked and
\* createApiKey is called. The rest of the handler wraps the key and the id
\* that createApiKey returns, or answers 500 when it throws.
PostApiKeys(p, name, pick) ==
    /\ slot[p].pc = "idle"
    /\ IF NameMissing(name)
       THEN /\ slot' = [slot EXCEPT ![p] = [IdleSlot EXCEPT
                           !.op = "POST /admin/api-keys", !.pc = "done", !.name = name,
                           !.status = 400, !.error = "Name is required"]]
            /\ UNCHANGED <<api_keys, seq, clock, issued, revoked, exercises, req, out>>
       ELSE CreateBegin(p, name, pick)

\* Mutant of ApiKeyMetadata: the row returned as it is.
ApiKeyAsStored(key) == key

\* The object GET /admin/api-keys makes of a row.
ApiKeyMetadata(key) ==
    [id |-> key.id, name |-> key.name, is_active |-> key.is_active,
     created_at |-> key.created_at, last_used |-> key.last_used]

\* GET /admin/api-keys: synchronous.
GetApiKeys(p) ==
    /\ slot[p].pc = "idle"
    /\ \E apiKeys \in AllApiKeysOrders(api_keys) :
          slot' = [slot EXCEPT ![p] = [IdleSlot EXCEPT
                      !.op = "GET /admin/api-keys", !.pc = "done", !.ok = TRUE,
                      !.status = 200,
                      !.rows = [i \in 1..Len(apiKeys) |-> ApiKeyMetadata(apiKeys[i])]]]
    /\ UNCHANGED <<api_keys, seq, clock, issued, revoked, exercises, req, out>>

\* The caller takes the result.
Return(p) ==
    /\ slot[p].pc = "done"
    /\ slot' = [slot EXCEPT ![p] = IdleSlot]
    /\ UNCHANGED <<api_keys, seq, clock, issued, revoked, exercises, req, out>>

\* A second passes on CURRENT_TIMESTAMP.
Tick ==
    /\ clock < MaxClock
    /\ clock' = clock + 1
    /\ UNCHANGED <<api_keys, seq, slot, issued, revoked, exercises, req, out>>


-----------------------------------------------------------------------------
(* Request Gate: authMiddleware and the handlers of GET /exercises and     *)
(* GET /exercises/:id                                                      *)

Bearer == <<"B", "e", "a", "r", "e", "r", " ">>

StartsWith(s, prefix) == Len(s) >= Len(prefix) /\ SubSeq(s, 1, Len(prefix)) = prefix

\* String.prototype.slice(n)
Slice(s, n) == SubSeq(s, n + 1, Len(s))

\* Mutant of BearerToken: the header passed on as it is.
HeaderAsToken(authHeader) == authHeader

\* authHeader.startsWith("Bearer ") ? authHeader.slice(7) : authHeader
BearerToken(authHeader) ==
    IF StartsWith(authHeader, Bearer) THEN Slice(authHeader, 7) ELSE authHeader

\* !authHeader: the header is absent or empty.
MissingHeader(headers) == ~headers.has_authorization \/ ~TruthySeq(headers.authorization)

validLangs == {"en", "zh"}

validTypes ==
    {"observation-evaluation", "feelings-thoughts", "needs-demands",
     "listening-barriers", "requests", "gratitude", "conflict-resolution"}

validDifficulties == {"beginner", "intermediate", "advanced"}

validAudiences == {"individual", "group"}

Response(status, error, body, calls) ==
    [status |-> status, error |-> error, body |-> body, calls |-> calls]

\* value && !valid.includes(value)
Rejected(value, valid) == Truthy(value) /\ value \notin valid

RepoCallNames == {"getAllExercises", "getExerciseById"}

\* The calls a handler makes to the database object after a query that
\* returned n rows.
TransformCalls(n) == [i \in 1..n |-> "transformToNVCExercise"]

\* The try block of GET /exercises.
ListHandler(rows, query) ==
    IF Rejected(query.lang, validLangs)
    THEN Response(400, "Invalid language. Use 'en' or 'zh'.", <<>>, <<>>)
    ELSE IF Rejected(query.type, validTypes)
    THEN Response(400, "Invalid type.", <<>>, <<>>)
    ELSE IF Rejected(query.difficulty, validDifficulties)
    THEN Response(400, "Invalid difficulty.", <<>>, <<>>)
    ELSE IF Rejected(query.targetAudience, validAudiences)
    THEN Response(400, "Invalid target audience.", <<>>, <<>>)
    ELSE LET dbExercises == getAllExercises(rows,
                 [type |-> query.type, difficulty |-> query.difficulty,
                  targetAudience |-> query.targetAudience])
         IN  Response(200, "",
                 [i \in 1..Len(dbExercises) |->
                     transformToNVCExercise(dbExercises[i], query.lang)],
                 <<"getAllExercises">> \o TransformCalls(Len(dbExercises)))

\* Mutant of ByIdHandler: the test of the id against /^\d+$/ left out.
ByIdHandlerNoIdCheck(rows, id, query) ==
    IF Rejected(query.lang, validLangs)
    THEN Response(400, "Invalid language. Use 'en' or 'zh'.", <<>>, <<>>)
    ELSE LET dbExercise == getExerciseById(rows, id)
         IN  IF Len(dbExercise) = 0
             THEN Response(404, "Exercise not found", <<>>, <<"getExerciseById">>)
             ELSE Response(200, "",
                      <<transformToNVCExercise(dbExercise[1], query.lang)>>,
                      <<"getExerciseById", "transformToNVCExercise">>)

\* The try block of GET /exercises/:id.
ByIdHandler(rows, id, query) ==
    IF Rejected(query.lang, validLangs)
    THEN Response(400, "Invalid language. Use 'en' or 'zh'.", <<>>, <<>>)
    ELSE IF ~IsDigits(id)
    THEN Response(400, "Invalid exercise ID format", <<>>, <<>>)
    ELSE LET dbExercise == getExerciseById(rows, id)
         IN  IF Len(dbExercise) = 0
             THEN Response(404, "Exercise not found", <<>>, <<"getExerciseById">>)
             ELSE Response(200, "",
                      <<transformToNVCExercise(dbExercise[1], query.lang)>>,
                      <<"getExerciseById", "transformToNVCExercise">>)

\* Mutant of AuthRejected: the result of authMiddleware is not looked at.
AuthNeverRejected(found) == FALSE

\* if (!apiKey) in authMiddleware, and if (authResult) return authResult.
AuthRejected(found) == Len(found) = 0

\* What the route returns once validateApiKey has returned found.
AfterAuth(route, rows, id, query, found) ==
    IF AuthRejected(found)
    THEN Response(401, "Invalid API key", <<>>, <<>>)
    ELSE IF route = "list" THEN ListHandler(rows, query)
    ELSE ByIdHandler(rows, id, query)

IdleReq ==
    [route |-> "none", pc |-> "idle",
     headers |-> [has_authorization |-> FALSE, authorization |-> <<>>],
     query |-> [type |-> Undefined, lang |-> Undefined,
                difficulty |-> Undefined, targetAudience |-> Undefined],
     id |-> <<>>, token |-> <<>>, apiKey |-> <<>>,
     response |-> Response(0, "", <<>>, <<>>),
     \* history of the request, for the properties
     validated |-> FALSE, statusAtLookup |-> "none", fault |-> "none"]

\* A content request up to the await of the digest: the header check of
\* authMiddleware and the call of validateApiKey.
GateBegin(route, headers, id, query) ==
    /\ req.pc = "idle"
    /\ IF MissingHeader(headers)
       THEN req' = [IdleReq EXCEPT
                !.route = route, !.pc = "done", !.headers = headers,
                !.id = id, !.query = query,
                !.response = Response(401, "Missing Authorization header", <<>>, <<>>)]
       ELSE req' = [IdleReq EXCEPT
                !.route = route, !.pc = "hash", !.headers = headers,
                !.id = id, !.query = query,
                !.token = BearerToken(headers.authorization)]
    /\ UNCHANGED <<api_keys, seq, clock, slot, issued, revoked, exercises, out>>

\* The rest of the request, run when the digest is known: the queries of
\* validateApiKey, the return of authMiddleware and the handler's try block.
GateResume ==
    /\ req.pc = "hash"
    /\ LET keyHash == hashApiKey(req.token)
           found == ValidateSelect(api_keys, keyHash)
           r == AfterAuth(req.route, exercises, req.id, req.query, found)
       IN  /\ api_keys' = ValidateTouch(api_keys, found, keyHash, clock)
           /\ req' = [req EXCEPT
                  !.pc = "done", !.apiKey = found,
                  !.response = [r EXCEPT !.calls = <<"validateApiKey">> \o r.calls],
                  !.validated = TRUE,
                  !.statusAtLookup = KeyStatus(api_keys, req.token)]
    /\ UNCHANGED <<seq, clock, slot, issued, revoked, exercises, out>>

\* Mutant of HandlerCatch: the error swallowed, an empty list returned.
HandlerCatchSwallows(calls) == Response(200, "", <<>>, calls)

\* catch (error) { set.status = 500; return { error: "Internal server error" } }
HandlerCatch(calls) == Response(500, "Internal server error", <<>>, calls)

\* .onError: what Elysia answers for an error that leaves a handler.
OnError(code, calls) ==
    IF code = "NOT_FOUND"
    THEN Response(404, "Endpoint not found", <<>>, calls)
    ELSE Response(500, "Internal server error", <<>>, calls)

\* Where a storage or digest error can be raised in a content request.
FaultPoints == {"digest", "lookup", "touch", "repository", "projection"}

\* The rest of the request when an error is raised at the given point. An
\* error inside validateApiKey leaves the handler (authMiddleware is called
\* before the try block) and reaches onError; an error of the repository
\* query or of the projection is caught by the handler. A point is reached
\* only if the request gets that far.
GateThrow(point) ==
    /\ req.pc = "hash"
    /\ LET keyHash == hashApiKey(req.token)
           found == ValidateSelect(api_keys, keyHash)
           r == AfterAuth(req.route, exercises, req.id, req.query, found)
           r1 == IF point \in {"digest", "lookup", "touch"}
                 THEN OnError("UNKNOWN", <<"validateApiKey">>)
                 ELSE IF point = "repository"
                 THEN HandlerCatch(<<"validateApiKey", r.calls[1]>>)
                 ELSE HandlerCatch(<<"validateApiKey">> \o r.calls)
       IN  /\ point = "touch" => Len(found) > 0
           /\ point = "repository" => Range(r.calls) \cap RepoCallNames # {}
           /\ point = "projection" => "transformToNVCExercise" \in Range(r.calls)
           /\ api_keys' = IF point \in {"repository", "projection"}
                          THEN ValidateTouch(api_keys, found, keyHash, clock)
                          ELSE api_keys
           /\ req' = [req EXCEPT
                  !.pc = "done", !.response = r1, !.fault = point,
                  !.apiKey = IF point \in {"repository", "projection"} THEN found ELSE <<>>,
                  !.validated = point \in {"repository", "projection"},
                  !.statusAtLookup = IF point \in {"repository", "projection"}
                                     THEN KeyStatus(api_keys, req.token) ELSE "none"]
    /\ UNCHANGED <<seq, clock, slot, issued, revoked, exercises, out>>

\* The response is sent.
GateReturn ==
    /\ req.pc = "done"
    /\ req' = IdleReq
    /\ UNCHANGED <<api_keys, seq, clock, slot, issued, revoked, exercises, out>>

\* Requests the model sends.
HeaderPool ==
    {[has_authorization |-> FALSE, authorization |-> <<>>]}
    \cup {[has_authorization |-> TRUE, authorization |-> h] :
            h \in TokenPool \cup {Bearer \o t : t \in TokenPool}}

LangPool == {Undefined, "", "zh", "fr"}

QueryPool ==
    [type : {Undefined, "", "gratitude", "poetry"},
     lang : LangPool,
     difficulty : {Undefined, "beginner", "expert"},
     targetAudience : {Undefined, "group", "everyone"}]

LangOnly(lang) ==
    [type |-> Undefined, lang |-> lang, difficulty |-> Undefined, targetAudience |-> Undefined]

IdPool == {<<"2">>, <<"9", "9", "9">>, <<"a", "b", "c">>, <<"2", "a">>}

NoOut ==
    [op |-> "none", filters |-> NoFilters, id |-> <<>>, lang |-> Undefined,
     rows |-> <<>>, projection |-> <<>>]

\* A fresh database file: both tables created and empty.
Init ==
    /\ api_keys = {}
    /\ seq = 0
    /\ clock = 1
    /\ slot = [p \in Procs |-> IdleSlot]
    /\ issued = <<>>
    /\ revoked = {}
    /\ exercises = <<>>
    /\ req = IdleReq
    /\ out = NoOut

Next ==
    \/ \E p \in Procs, c \in IssuePool : CreateBegin(p, c[1], c[2])
    \/ \E p \in Procs : CreateInsert(p)
    \/ \E p \in Procs, key \in TokenPool : ValidateBegin(p, key)
    \/ \E p \in Procs : ValidateLookup(p)
    \/ \E p \in Procs, id \in 1..(MaxKeys + 1) : Deactivate(p, id)
    \/ \E p \in Procs : GetAllApiKeys(p)
    \/ \E p \in Procs : Return(p)
    \/ Tick

Spec == Init /\ [][Next]_vars

\* The admin routes and the store calls behind them, one request at a time,
\* on a fresh database file.
NextAdmin ==
    \/ \E c \in IssuePool \cup (BlankNames \X RandomPicks) : PostApiKeys("c1", c[1], c[2])
    \/ CreateInsert("c1")
    \/ GetApiKeys("c1")
    \/ \E id \in 1..(MaxKeys + 1) : Deactivate("c1", id)
    \/ \E key \in TokenPool : ValidateBegin("c1", key)
    \/ ValidateLookup("c1")
    \/ Return("c1")
    \/ Tick

SpecAdmin == Init /\ [][NextAdmin]_vars

\* A database file in use: two credentials issued in the first second, the
\* second one revoked since, and the exercises table seeded.
GateKeys == <<generateApiKey([i \in 1..KeyRandomChars |-> "A"]),
              generateApiKey([i \in 1..KeyRandomChars |-> "7"])>>

InitGate ==
    /\ api_keys = DeactivateRows(
                      {NewRow(i, hashApiKey(GateKeys[i]), "Demo", 1) : i \in 1..2}, 2)
    /\ seq = 2
    /\ clock = 1
    /\ slot = [p \in Procs |-> IdleSlot]
    /\ issued = GateKeys
    /\ revoked = {2}
    /\ exercises = StoreOf({1, 2, 5})
    /\ req = IdleReq
    /\ out = NoOut

NextGate ==
    \/ \E headers \in HeaderPool, query \in QueryPool :
          GateBegin("list", headers, <<>>, query)
    \/ \E headers \in HeaderPool, id \in IdPool, lang \in LangPool :
          GateBegin("byId", headers, id, LangOnly(lang))
    \/ GateResume
    \/ \E point \in FaultPoints : GateThrow(point)
    \/ GateReturn
    \/ \E id \in DOMAIN issued : Deactivate("c1", id)
    \/ Return("c1")
    \/ Tick

SpecGate == InitGate /\ [][NextGate]_vars

-----------------------------------------------------------------------------
(* Direct calls of the repository and the projector on a seeded table *)

FilterPool ==
    [type : {Undefined, "gratitude", "conflict-resolution", "requests", "feelings-thoughts"},
     difficulty : {Undefined, "beginner", "intermediate", "advanced"},
     targetAudience : {Undefined, "individual", "group"}]

CallGetAllExercises(filters) ==
    /\ out' = [NoOut EXCEPT !.op = "getAllExercises", !.filters = filters,
                            !.rows = getAllExercises(exercises, filters)]
    /\ UNCHANGED <<api_keys, seq, clock, slot, issued, revoked, exercises, req>>

CallGetExerciseById(id) ==
    /\ out' = [NoOut EXCEPT !.op = "getExerciseById", !.id = id,
                            !.rows = getExerciseById(exercises, id)]
    /\ UNCHANGED <<api_keys, seq, clock, slot, issued, revoked, exercises, req>>

CallTransform(i, lang) ==
    /\ i \in 1..Len(exercises)
    /\ out' = [NoOut EXCEPT !.op = "transformToNVCExercise", !.lang = lang,
                            !.rows = <<exercises[i]>>,
                            !.projection = transformToNVCExercise(exercises[i], lang)]
    /\ UNCHANGED <<api_keys, seq, clock, slot, issued, revoked, exercises, req>>

\* Any selection of the pool rows is a table a seed load can leave.
InitRepo ==
    /\ api_keys = {}
    /\ seq = 0
    /\ clock = 1
    /\ slot = [p \in Procs |-> IdleSlot]
    /\ issued = <<>>
    /\ revoked = {}
    /\ exercises \in {StoreOf(ids) : ids \in SUBSET PoolIds}
    /\ req = IdleReq
    /\ out = NoOut

NextRepo ==
    \/ \E filters \in FilterPool : CallGetAllExercises(filters)
    \/ \E id \in IdPool \cup {<<"0", "2">>, <<"5">>} : CallGetExerciseById(id)
    \/ \E i \in 1..Len(ExercisePool), lang \in {Undefined, "en", "zh", "fr", ""} :
          CallTransform(i, lang)

SpecRepo == InitRepo /\ [][NextRepo]_vars

-----------------------------------------------------------------------------
(* Properties of the credential store, checked under Spec *)

ValidateDone(p) == slot[p].op = "validateApiKey" /\ slot[p].pc = "done"

DeactivateDone(p) == slot[p].op = "deactivateApiKey" /\ slot[p].pc = "done"

\* The step in which caller p runs the queries of validateApiKey.
LookupStep(p) ==
    /\ slot[p].op = "validateApiKey" /\ slot[p].pc = "hash"
    /\ slot'[p].pc = "done"

\* C1: a validateApiKey call made with the plaintext of a credential whose
\* deactivateApiKey has already returned true returns null, whatever calls
\* ran in between.
C1_RevokedNeverValidates ==
    \A p \in Procs :
        (ValidateDone(p) /\ slot[p].revokedAtCall) => (slot[p].rows = <<>> /\ ~slot[p].ok)

\* A rejected validate of a revoked credential whose digest is still stored.
C1_Witness ==
    \E p \in Procs :
        /\ ValidateDone(p) /\ slot[p].revokedAtCall /\ slot[p].rows = <<>>
        /\ \E r \in api_keys : r.key_hash = hashApiKey(slot[p].key) /\ ~r.is_active

\* C2: validateApiKey returns a row exactly when, at its lookup, the table
\* holds an active row whose digest is the digest of the presented secret,
\* and then it returns that row; otherwise it returns null.
C2_ValidateIffActiveMatch ==
    [][\A p \in Procs :
          LookupStep(p) =>
            LET matching == {r \in api_keys :
                                r.key_hash = hashApiKey(slot[p].key) /\ r.is_active}
            IN  \/ matching = {} /\ slot'[p].rows = <<>> /\ ~slot'[p].ok
                \/ /\ matching # {} /\ slot'[p].ok
                   /\ Len(slot'[p].rows) = 1 /\ slot'[p].rows[1] \in matching]_vars

\* One validate has succeeded and another, of a revoked credential, has failed.
C2_Witness ==
    \E p, q \in Procs :
        /\ ValidateDone(p) /\ slot[p].ok /\ slot[p].rows[1].is_active
        /\ ValidateDone(q) /\ ~slot[q].ok /\ slot[q].statusAtCall = "revoked"

\* C3 as stated: deactivateApiKey returns true only for an id that is active
\* at the call, and false for an already revoked or unknown id.
C3_TrueOnlyOnFlip ==
    \A p \in Procs :
        DeactivateDone(p) => (slot[p].ok <=> slot[p].statusAtCall = "active")

\* C3 amended: deactivateApiKey returns true exactly when a row with the id
\* exists at the call, active or already revoked, and false (no error) for
\* an id that was never issued.
C3_TrueIffExists ==
    \A p \in Procs :
        DeactivateDone(p) =>
            /\ slot[p].ok <=> slot[p].statusAtCall \in {"active", "revoked"}
            /\ ~slot[p].threw

\* A deactivate of an already revoked id has returned true.
C3_Witness ==
    \E p \in Procs :
        DeactivateDone(p) /\ slot[p].statusAtCall = "revoked" /\ slot[p].ok

\* C4: a row is active when inserted, and no step makes a revoked row
\* active again or removes it.
C4_RevokedIsTerminal ==
    [][/\ \A r \in api_keys :
            /\ \E r2 \in api_keys' : r2.id = r.id
            /\ \A r2 \in api_keys' : (r2.id = r.id /\ ~r.is_active) => ~r2.is_active
       /\ \A r2 \in api_keys' :
            (\A r \in api_keys : r.id # r2.id) => r2.is_active]_vars

\* A revoked credential is still revoked after a later issue and a later
\* deactivate of the same id.
C4_Witness ==
    /\ \E r, r2 \in api_keys : ~r.is_active /\ r2.id > r.id
    /\ \E p \in Procs :
          /\ DeactivateDone(p) /\ slot[p].statusAtCall = "revoked"
          /\ IdStatus(api_keys, slot[p].id) = "revoked"

\* C5: a validateApiKey that was in flight (awaiting the digest) when a
\* deactivate of its credential completed returns null: its status check
\* reads the table as it is at the digest lookup.
C5_NoStaleStatus ==
    \A p \in Procs :
        (ValidateDone(p) /\ slot[p].revokedInFlight) => (slot[p].rows = <<>> /\ ~slot[p].ok)

\* A validate that began on an active credential, was overtaken by the
\* revoke, and was rejected.
C5_Witness ==
    \E p \in Procs :
        /\ ValidateDone(p) /\ slot[p].statusAtCall = "active"
        /\ slot[p].revokedInFlight /\ ~slot[p].ok

-----------------------------------------------------------------------------
(* Properties of the request gate, checked under SpecGate *)

RepositoryCalls == {"getAllExercises", "getExerciseById"}

ContentCalls == RepositoryCalls \cup {"transformToNVCExercise"}

ReqDone == req.pc = "done"

\* validateApiKey ran for the request and returned null.
ValidateFailed == req.validated /\ req.apiKey = <<>>

\* C6: a content request with no credential, or with one that
\* validateApiKey rejects, ends with status 401, and neither the repository
\* nor the projector is called for it.
C6_UnauthorizedShortCircuit ==
    (ReqDone /\ (MissingHeader(req.headers) \/ ValidateFailed)) =>
        /\ req.response.status = 401
        /\ req.response.body = <<>>
        /\ Range(req.response.calls) \cap ContentCalls = {}

\* A well-formed list request with a secret that was never issued has been
\* answered 401.
C6_Witness ==
    /\ ReqDone /\ req.route = "list" /\ ValidateFailed
    /\ req.statusAtLookup = "unknown"
    /\ req.query.type = "gratitude" /\ req.query.lang = "zh"
    /\ req.response.status = 401

\* C7: validateApiKey and the gate treat a secret that was never issued
\* and the secret of a revoked credential alike: on the same table both
\* lookups return null, both leave the table as it is, and both requests
\* get the same 401 response.
C7_UnknownLikeRevoked ==
    /\ \A u, v \in TokenPool :
          (KeyStatus(api_keys, u) = "unknown" /\ KeyStatus(api_keys, v) = "revoked") =>
            LET foundU == ValidateSelect(api_keys, hashApiKey(u))
                foundV == ValidateSelect(api_keys, hashApiKey(v))
            IN  /\ foundU = foundV
                /\ ValidateTouch(api_keys, foundU, hashApiKey(u), clock)
                     = ValidateTouch(api_keys, foundV, hashApiKey(v), clock)
                /\ ValidateTouch(api_keys, foundV, hashApiKey(v), clock) = api_keys
                /\ \A route \in {"list", "byId"} :
                      AfterAuth(route, exercises, <<"2">>, LangOnly(Undefined), foundU)
                        = AfterAuth(route, exercises, <<"2">>, LangOnly(Undefined), foundV)
    /\ (ReqDone /\ req.validated /\ req.statusAtLookup \in {"unknown", "revoked"}) =>
          req.response = Response(401, "Invalid API key", <<>>, <<"validateApiKey">>)

\* A request with the secret of a revoked credential has been answered
\* while the table also lacks some other secret.
C7_Witness ==
    /\ ReqDone /\ req.validated /\ req.statusAtLookup = "revoked"
    /\ req.response.status = 401
    /\ \E u \in TokenPool : KeyStatus(api_keys, u) = "unknown"
    /\ \E r \in api_keys : r.key_hash = hashApiKey(req.token) /\ r.last_used = NoTime

\* A query value that was sent and is no member of its enumeration.
OutsideEnum(value, valid) == value # Undefined /\ value \notin valid

\* C10 as stated: an authenticated content request with a lang, type,
\* difficulty or targetAudience value outside its enumeration is answered
\* 400 without a repository call.
C10_InvalidValueRejected ==
    (ReqDone /\ req.validated /\ req.apiKey # <<>>
       /\ \/ OutsideEnum(req.query.lang, validLangs)
          \/ OutsideEnum(req.query.type, validTypes)
          \/ OutsideEnum(req.query.difficulty, validDifficulties)
          \/ OutsideEnum(req.query.targetAudience, validAudiences))
    => /\ req.response.status = 400
       /\ Range(req.response.calls) \cap ContentCalls = {}

-----------------------------------------------------------------------------
(* Properties of the repository and the projector, checked under SpecRepo *)

\* The row satisfies every filter field that is given.
MatchesAllProvided(e, f) ==
    /\ f.type # Undefined => e.type = f.type
    /\ f.difficulty # Undefined => e.difficulty = f.difficulty
    /\ f.targetAudience # Undefined => e.target_audience = f.targetAudience

\* C8: getAllExercises returns exactly the stored rows that equal the given
\* value on every provided filter field, each once, and every stored row
\* when no field is provided.
C8_ListIsConjunctiveFilter ==
    out.op = "getAllExercises" =>
        /\ Range(out.rows) = {e \in Range(exercises) : MatchesAllProvided(e, out.filters)}
        /\ Cardinality(Range(out.rows)) = Len(out.rows)
        /\ out.filters = NoFilters => out.rows = exercises

\* A two-field filter has kept some rows and dropped others, one of them a
\* row that matches only one of the two fields.
C8_Witness ==
    /\ out.op = "getAllExercises"
    /\ out.filters.type # Undefined /\ out.filters.targetAudience # Undefined
    /\ Len(out.rows) > 0
    /\ \E e \in Range(exercises) :
          e.type = out.filters.type /\ e.target_audience # out.filters.targetAudience

ScalarBilingual ==
    {"name", "description", "scenario", "example", "nvcAlternative",
     "requestTemplate", "gratitudeExpression"}

Projected == out.op = "transformToNVCExercise" /\ out.lang \in validLangs

\* The projection of the same row with no language.
LanguageMap == transformToNVCExercise(out.rows[1], Undefined)

\* The single-language projection and the language map carry the same
\* fields, and each scalar bilingual field is the map's entry for the language.
ScalarRoundTrip ==
    /\ DOMAIN out.projection = DOMAIN LanguageMap
    /\ \A f \in ScalarBilingual \cap DOMAIN out.projection :
          out.projection[f] = LanguageMap[f][out.lang]

ColumnsOf ==
    [scenario |-> <<"scenario_en", "scenario_zh">>,
     example |-> <<"example_en", "example_zh">>,
     nvcAlternative |-> <<"nvc_alternative_en", "nvc_alternative_zh">>,
     requestTemplate |-> <<"request_template_en", "request_template_zh">>,
     gratitudeExpression |-> <<"gratitude_expression_en", "gratitude_expression_zh">>]

\* transformToNVCExercise was called with a language that is given and is
\* neither "en" nor "zh".
UnsupportedLang == out.op = "transformToNVCExercise" /\ out.lang \notin validLangs \cup {Undefined}

\* C11 as stated: transformToNVCExercise called with a language that is
\* neither of the two supported codes signals an invalid-language condition
\* and returns no projection.
C11_ProjectorRejects == UnsupportedLang => DOMAIN out.projection = {}

\* C11 amended: transformToNVCExercise signals nothing. With a non-empty
\* language other than "zh" it returns the English projection; with the
\* empty string it returns the two-language map, as with no language.
C11_ProjectorDefaultsToEnglish ==
    UnsupportedLang =>
        LET e == out.rows[1]
            p == out.projection
            en(a, b) == IF out.lang = "" THEN [en |-> a, zh |-> b] ELSE a
        IN  /\ p.id = IdToString(e.id) /\ p.type = e.type
            /\ p.name = en(e.name_en, e.name_zh)
            /\ p.description = en(e.description_en, e.description_zh)
            /\ \A f \in DOMAIN ColumnsOf \cap DOMAIN p :
                  p[f] = en(e[ColumnsOf[f][1]], e[ColumnsOf[f][2]])
            /\ "steps" \in DOMAIN p =>
                  IF out.lang = ""
                  THEN \A i \in 1..Len(p.steps) : p.steps[i].en = JSONParse(e.steps_en)[i]
                  ELSE p.steps = JSONParse(e.steps_en)

\* A row with steps and differing names has been projected with "fr".
C11_Witness ==
    /\ UnsupportedLang /\ out.lang = "fr"
    /\ "steps" \in DOMAIN out.projection
    /\ out.rows[1].name_en # out.rows[1].name_zh
    /\ out.projection.name = out.rows[1].name_en


-----------------------------------------------------------------------------
(* Properties of GET /exercises/:id, checked under SpecGate *)

\* The request passed authMiddleware: validateApiKey returned a row.
Authenticated == req.validated /\ req.apiKey # <<>>

\* Some character of the id is not a decimal digit.
NonDigitId(id) ==
    \E i \in 1..Len(id) : id[i] \notin {"0", "1", "2", "3", "4", "5", "6", "7", "8", "9"}

\* C12: an authenticated GET /exercises/:id whose id is not made of digits
\* only is answered 400, never 404, whatever rows the table holds, and
\* getExerciseById is not called for it.
C12_MalformedIdIsValidationFailure ==
    (ReqDone /\ req.route = "byId" /\ Authenticated /\ NonDigitId(req.id)) =>
        /\ req.response.status = 400
        /\ req.response.body = <<>>
        /\ Range(req.response.calls) \cap ContentCalls = {}

\* The id "2a", whose leading digit is the id of a stored exercise, has
\* been rejected for its format.
C12_Witness ==
    /\ ReqDone /\ req.route = "byId" /\ Authenticated
    /\ req.id = <<"2", "a">>
    /\ \E i \in 1..Len(exercises) : exercises[i].id = 2
    /\ req.response.status = 400
    /\ req.response.error = "Invalid exercise ID format"

-----------------------------------------------------------------------------
(* Properties of getExerciseById, checked under SpecRepo *)

\* The identifier a stored row carries in the output: id.toString().
OutputId(e) == transformToNVCExercise(e, Undefined).id

\* C13 as stated: getExerciseById with a digits-only identifier returns the
\* row whose identifier is the requested one when the table holds such a
\* row, and null otherwise; it never returns a row with another identifier.
C13_ExactMatch ==
    (out.op = "getExerciseById" /\ Len(out.id) > 0 /\ ~NonDigitId(out.id)) =>
        IF \E e \in Range(exercises) : OutputId(e) = out.id
        THEN Len(out.rows) = 1 /\ OutputId(out.rows[1]) = out.id
        ELSE out.rows = <<>>

-----------------------------------------------------------------------------
(* Further properties of the credential store, checked under Spec *)

\* createApiKey has returned to caller p and p still holds the result.
CreateDone(p) == slot[p].op = "createApiKey" /\ slot[p].pc = "done" /\ slot[p].ok

\* C14: a validateApiKey whose lookup runs with the plaintext that
\* createApiKey returned for a credential, no deactivateApiKey of that
\* credential having run so far, returns the active row of that credential:
\* the id createApiKey returned and the label it was given.
C14_ValidateAfterIssue ==
    [][\A p \in Procs :
          LookupStep(p) =>
            \A id \in DOMAIN issued :
                (issued[id] = slot[p].key /\ id \notin revoked) =>
                    /\ slot'[p].ok /\ Len(slot'[p].rows) = 1
                    /\ slot'[p].rows[1].id = id
                    /\ slot'[p].rows[1].is_active
                    /\ \A q \in Procs :
                          (CreateDone(q) /\ slot[q].id = id) =>
                              /\ slot[q].key = slot[p].key
                              /\ slot'[p].rows[1].name = slot[q].name]_vars

\* The second credential, labelled "Ops", has just been issued to one
\* caller, and the other caller has validated its plaintext.
C14_Witness ==
    \E p, q \in Procs :
        /\ CreateDone(q) /\ slot[q].id = 2 /\ slot[q].name = "Ops"
        /\ ValidateDone(p) /\ slot[p].key = slot[q].key /\ slot[p].ok
        /\ slot[p].rows[1].id = 2 /\ slot[p].rows[1].name = "Ops"
        /\ \E r \in api_keys : r.id = 1 /\ r.name = "Demo"

\* The row with the given id.
RowOf(rows, id) == CHOOSE r \in rows : r.id = id

\* The step in which caller p's validateApiKey finds a row.
SuccessfulLookup(p) == LookupStep(p) /\ slot'[p].ok

\* C15: last_used is NULL in a row just inserted; a validateApiKey that
\* finds a row sets that row's last_used to the current time; and the
\* last_used of a row changes in no other step: not in a validateApiKey
\* that returns null, nor in deactivateApiKey, createApiKey or getAllApiKeys.
C15_LastUsedOnlyOnSuccess ==
    [][/\ \A r2 \in api_keys' :
            (\A r \in api_keys : r.id # r2.id) => r2.last_used = NoTime
       /\ \A p \in Procs :
            SuccessfulLookup(p) =>
                RowOf(api_keys', slot'[p].rows[1].id).last_used = clock
       /\ \A r \in api_keys, r2 \in api_keys' :
            (r2.id = r.id /\ r2.last_used # r.last_used) =>
                \E p \in Procs : SuccessfulLookup(p) /\ slot'[p].rows[1].id = r.id]_vars

\* One credential was validated in the second second after its issue in the
\* first, and a failed validate of a revoked credential left its last_used NULL.
C15_Witness ==
    /\ \E r \in api_keys : r.created_at = 1 /\ r.last_used = 2
    /\ \E p \in Procs :
          /\ ValidateDone(p) /\ ~slot[p].ok /\ slot[p].statusAtCall = "revoked"
          /\ \E r \in api_keys : r.key_hash = hashApiKey(slot[p].key) /\ r.last_used = NoTime

\* The step in which caller p runs deactivateApiKey.
DeactivateStep(p) == slot[p].pc = "idle" /\ slot'[p].op = "deactivateApiKey"

\* The step in which caller p's createApiKey inserts its row.
InsertStep(p) ==
    slot[p].op = "createApiKey" /\ slot[p].pc = "hash" /\ slot'[p].pc = "done" /\ slot'[p].ok

\* C16: key_hash, name and created_at of a stored row never change, and a
\* row is inserted with the digest of the key returned, the label given and
\* the current time.  A row changes only in a deactivateApiKey of its id,
\* and then only in is_active, or in a validateApiKey that found it, and
\* then only in last_used.
C16_FieldsFrame ==
    [][/\ \A r \in api_keys, r2 \in api_keys' :
            r2.id = r.id =>
                /\ r2.key_hash = r.key_hash /\ r2.name = r.name
                /\ r2.created_at = r.created_at
                /\ r2 # r =>
                     \/ \E p \in Procs :
                           /\ DeactivateStep(p) /\ slot'[p].id = r.id
                           /\ r2 = [r EXCEPT !.is_active = FALSE]
                     \/ \E p \in Procs :
                           /\ SuccessfulLookup(p) /\ slot'[p].rows[1].id = r.id
                           /\ r2 = [r EXCEPT !.last_used = r2.last_used]
       /\ \A p \in Procs :
            InsertStep(p) =>
                LET r2 == RowOf(api_keys', slot'[p].id)
                IN  /\ r2.key_hash = hashApiKey(slot[p].key)
                    /\ r2.name = slot[p].name
                    /\ r2.created_at = clock]_vars

\* Credential 1 has been validated and then revoked in a later second than
\* its issue, while credential 2, with another label, is still active.
C16_Witness ==
    /\ \E p \in Procs : DeactivateDone(p) /\ slot[p].id = 1 /\ slot[p].statusAtCall = "active"
    /\ \E r \in api_keys :
          r.id = 1 /\ ~r.is_active /\ r.last_used = 2 /\ r.created_at = 1 /\ r.name = "Demo"
    /\ \E r \in api_keys : r.id = 2 /\ r.is_active /\ r.name = "Ops"

\* The step in which caller p lists the credentials.
ListStep(p) ==
    slot[p].pc = "idle" /\ slot'[p].op \in {"getAllApiKeys", "GET /admin/api-keys"}

\* C17: no step removes a row of api_keys; after every step the table holds
\* a row for every credential createApiKey has returned, revoked or not; and
\* a listing carries an entry for each of them.
C17_NeverDeleted ==
    [][/\ \A r \in api_keys : \E r2 \in api_keys' : r2.id = r.id
       /\ \A id \in DOMAIN issued' :
            \E r \in api_keys' : r.id = id /\ r.key_hash = hashApiKey(issued'[id])
       /\ \A p \in Procs :
            ListStep(p) =>
                /\ Len(slot'[p].rows) = Cardinality(api_keys)
                /\ \A id \in DOMAIN issued :
                      \E i \in 1..Len(slot'[p].rows) : slot'[p].rows[i].id = id]_vars

\* A listing taken after a revoke shows the revoked credential and an
\* active one.
C17_Witness ==
    \E p \in Procs :
        /\ slot[p].op = "getAllApiKeys" /\ slot[p].pc = "done"
        /\ Len(slot[p].rows) = 2
        /\ \E i, j \in 1..2 :
              /\ ~slot[p].rows[i].is_active /\ slot[p].rows[i].id \in revoked
              /\ slot[p].rows[j].is_active

\* The secrets and digests in what a finished call hands to its caller: the
\* key of a createApiKey that returned, the key_hash of every row that
\* validateApiKey or getAllApiKeys returned. deactivateApiKey returns a boolean.
ReturnedTexts(p) ==
    IF slot[p].pc # "done" THEN {}
    ELSE IF slot[p].op = "createApiKey"
    THEN (IF slot[p].ok THEN {slot[p].key} ELSE {})
    ELSE IF slot[p].op \in {"validateApiKey", "getAllApiKeys"}
    THEN {slot[p].rows[i].key_hash : i \in 1..Len(slot[p].rows)}
    ELSE {}

\* C18: no stored row holds the plaintext that createApiKey returned for any
\* credential (the one text column the store fills itself, key_hash, holds a
\* different value), and a finished call hands out the plaintext of a
\* credential only if it is the createApiKey call that issued it.
C18_PlaintextOnlyAtIssue ==
    \A id \in DOMAIN issued :
        /\ \A r \in api_keys : r.key_hash # issued[id]
        /\ \A p \in Procs :
              issued[id] \in ReturnedTexts(p) =>
                  slot[p].op = "createApiKey" /\ slot[p].ok /\ slot[p].id = id

\* With two credentials issued, one caller holds the result of a
\* validateApiKey of the first and the other a listing of both.
C18_Witness ==
    \E p, q \in Procs :
        /\ DOMAIN issued = {1, 2}
        /\ ValidateDone(p) /\ slot[p].ok /\ slot[p].key = issued[1]
        /\ slot[q].op = "getAllApiKeys" /\ slot[q].pc = "done" /\ Len(slot[q].rows) = 2

-----------------------------------------------------------------------------
(* Properties of the admin routes, checked under SpecAdmin *)

ListingDone(p) == slot[p].op = "GET /admin/api-keys" /\ slot[p].pc = "done"

\* C19: every entry of the response of GET /admin/api-keys has the
\* properties id, name, is_active, created_at and last_used of its row and
\* no other property; key_hash is not among them.
C19_ListingWithoutDigest ==
    \A p \in Procs :
        ListingDone(p) =>
            \A i \in 1..Len(slot[p].rows) :
                LET entry == slot[p].rows[i] IN
                /\ DOMAIN entry = {"id", "name", "is_active", "created_at", "last_used"}
                /\ \E r \in api_keys :
                      /\ r.id = entry.id /\ r.name = entry.name
                      /\ r.is_active = entry.is_active
                      /\ r.created_at = entry.created_at /\ r.last_used = entry.last_used

\* A listing of two credentials, one revoked and one that has been used.
C19_Witness ==
    \E p \in Procs :
        /\ ListingDone(p) /\ Len(slot[p].rows) = 2
        /\ \E i, j \in 1..2 :
              ~slot[p].rows[i].is_active /\ slot[p].rows[j].last_used # NoTime

\* The step in which caller p sends POST /admin/api-keys with no name or
\* with the empty name.
BlankPost(p) ==
    /\ slot[p].pc = "idle"
    /\ slot'[p].op \in {"POST /admin/api-keys", "createApiKey"}
    /\ slot'[p].name \in BlankNames

-----------------------------------------------------------------------------
(* Further properties of the projector, checked under SpecRepo *)

Transformed == out.op = "transformToNVCExercise"

Unprojected == Transformed /\ out.lang = Undefined

\* The value is a two-entry language map of the two texts.
LanguageMapOf(v, en, zh) ==
    /\ DOMAIN v = {"en", "zh"}
    /\ v.en = en /\ v.zh = zh
    /\ en \notin {Undefined, Null} /\ zh \notin {Undefined, Null}

\* With no language, name, description and every optional scalar property
\* of the output are two-entry maps of the row's two texts.
ScalarsAreLanguageMaps ==
    LET e == out.rows[1]
        p == out.projection
    IN  /\ LanguageMapOf(p.name, e.name_en, e.name_zh)
        /\ LanguageMapOf(p.description, e.description_en, e.description_zh)
        /\ \A f \in DOMAIN ColumnsOf \cap DOMAIN p :
              LanguageMapOf(p[f], e[ColumnsOf[f][1]], e[ColumnsOf[f][2]])

Max(a, b) == IF a > b THEN a ELSE b

C23_MetadataPassThrough ==
    (Transformed /\ out.lang \in {Undefined, "en", "zh"}) =>
        LET e == out.rows[1]
            p == out.projection
        IN  /\ IsDigits(p.id) /\ ToInteger(p.id) = e.id
            /\ p.type = e.type
            /\ p.difficulty = e.difficulty
            /\ p.targetAudience = e.target_audience
            /\ "relatedExercises" \in DOMAIN p <=> e.related_exercises # NoJson
            /\ "relatedExercises" \in DOMAIN p =>
                  JSONStringify(p.relatedExercises) = e.related_exercises
            /\ \A l \in {Undefined, "en", "zh"} :
                  LET q == transformToNVCExercise(e, l)
                  IN  /\ q.id = p.id /\ q.type = p.type
                      /\ q.difficulty = p.difficulty
                      /\ q.targetAudience = p.targetAudience
                      /\ DOMAIN q = DOMAIN p
                      /\ "relatedExercises" \in DOMAIN p =>
                            q.relatedExercises = p.relatedExercises

\* The Chinese projection of a row that lists two related exercises, one
\* of them not in the table.
C23_Witness ==
    /\ Transformed /\ out.lang = "zh"
    /\ "relatedExercises" \in DOMAIN out.projection
    /\ out.projection.relatedExercises = <<"1", "77">>
    /\ out.projection.id = <<"2">>
    /\ out.projection.difficulty = "advanced"

-----------------------------------------------------------------------------
(* Further properties of the request gate, checked under SpecGate *)

\* The secrets a caller can present: non-empty, and not themselves
\* beginning with the prefix.
Secrets == {s \in TokenPool : s # <<>> /\ ~StartsWith(s, Bearer)}

\* C24: for every secret s, a request whose Authorization header is
\* "Bearer s" and one whose header is s hand the same s to validateApiKey,
\* and the response is 401 exactly when the table has no active row for s
\* at the lookup, whichever form the header has.
C24_BearerPrefixStripped ==
    /\ \A s \in Secrets :
          (req.pc \in {"hash", "done"} /\ req.headers.authorization \in {s, Bearer \o s}) =>
              /\ req.token = s
              /\ (ReqDone /\ req.fault = "none") =>
                            /\ req.validated
                            /\ req.statusAtLookup = "active" <=> req.apiKey # <<>>
                            /\ req.response.status = 401 <=> req.apiKey = <<>>
    /\ \A s \in Secrets, route \in {"list", "byId"} :
          LET bare == ValidateSelect(api_keys, hashApiKey(BearerToken(s)))
              prefixed == ValidateSelect(api_keys, hashApiKey(BearerToken(Bearer \o s)))
          IN  AfterAuth(route, exercises, <<"2">>, LangOnly("zh"), bare)
                = AfterAuth(route, exercises, <<"2">>, LangOnly("zh"), prefixed)

\* A request presenting "Bearer " and the active key has been answered 200.
C24_Witness ==
    /\ ReqDone /\ req.headers.authorization = Bearer \o GateKeys[1]
    /\ req.token = GateKeys[1]
    /\ req.response.status = 200

\* C25: a content request in which a digest or storage error is raised,
\* in validateApiKey, in the repository query or in the projection, is
\* answered 500 "Internal server error" with no content: never 200, 401,
\* 400 or 404.
C25_InternalFailureSurfaced ==
    (ReqDone /\ req.fault # "none") =>
        /\ req.response.status = 500
        /\ req.response.error = "Internal server error"
        /\ req.response.body = <<>>

\* An error raised in the projection of a list request that passed
\* validation has been answered 500.
C25_Witness ==
    /\ ReqDone /\ req.response.status = 500
    /\ req.fault = "projection" /\ req.route = "list" /\ req.validated
    /\ req.query.type = "gratitude"
    /\ "transformToNVCExercise" \in Range(req.response.calls)

-----------------------------------------------------------------------------
(* Further properties of the credential store, checked under Spec *)

Alphanumerics ==
    {"A", "B", "C", "D", "E", "F", "G", "H", "I", "J", "K", "L", "M",
     "N", "O", "P", "Q", "R", "S", "T", "U", "V", "W", "X", "Y", "Z",
     "a", "b", "c", "d", "e", "f", "g", "h", "i", "j", "k", "l", "m",
     "n", "o", "p", "q", "r", "s", "t", "u", "v", "w", "x", "y", "z",
     "0", "1", "2", "3", "4", "5", "6", "7", "8", "9"}

WellFormedKey(key) ==
    /\ Len(key) = 36
    /\ SubSeq(key, 1, 4) = <<"n", "v", "c", "_">>
    /\ \A i \in 5..36 : key[i] \in Alphanumerics

\* C26: every key createApiKey returns has 36 characters: "nvc_" and then
\* 32 characters of A-Z, a-z, 0-9.
C26_KeyFormat ==
    /\ \A id \in DOMAIN issued : WellFormedKey(issued[id])
    /\ \A p \in Procs : CreateDone(p) => WellFormedKey(slot[p].key)

\* Two different keys have been issued.
C26_Witness ==
    /\ DOMAIN issued = {1, 2} /\ issued[1] # issued[2]
    /\ \E p \in Procs : CreateDone(p) /\ slot[p].key = issued[2]

-----------------------------------------------------------------------------
(* Order of the steps of a content request, checked under SpecGate *)

\* Some parameter of the request is outside its enumeration, or the id of
\* a request by id is not made of digits.
InvalidParameter ==
    \/ OutsideEnum(req.query.lang, validLangs)
    \/ OutsideEnum(req.query.type, validTypes)
    \/ OutsideEnum(req.query.difficulty, validDifficulties)
    \/ OutsideEnum(req.query.targetAudience, validAudiences)
    \/ req.route = "byId" /\ NonDigitId(req.id)

\* The calls were made in the order validateApiKey, one repository call,
\* transformToNVCExercise calls.
CallsInOrder(calls) ==
    /\ Len(calls) > 0 => calls[1] = "validateApiKey"
    /\ \A i \in 2..Len(calls) :
          IF i = 2 THEN calls[i] \in RepositoryCalls
          ELSE calls[i] = "transformToNVCExercise"

\* C27 as stated: the calls of a content request are made in the order
\* validateApiKey, repository, projection; a request with a rejected
\* credential and an invalid parameter is answered 401; and a request with
\* an invalid parameter is answered 400 without a repository call.
C27_FixedOrder ==
    (ReqDone /\ req.fault = "none") =>
        /\ CallsInOrder(req.response.calls)
        /\ (ValidateFailed /\ InvalidParameter) => req.response.status = 401
        /\ (Authenticated /\ InvalidParameter) =>
              /\ req.response.status = 400
              /\ Range(req.response.calls) \cap ContentCalls = {}

\* The step in which a content request with an accepted credential is
\* answered 400 or 404.
FailedAfterAuth ==
    /\ req.pc = "hash" /\ req'.pc = "done" /\ req'.fault = "none"
    /\ req'.apiKey # <<>>
    /\ req'.response.status \in {400, 404}

\* C28: a content request whose credential validateApiKey accepts and that
\* is answered 400 or 404 has set the last_used of that credential to the
\* current time, and has changed nothing else in either table.
C28_TouchSurvivesFailure ==
    [][FailedAfterAuth =>
          LET id == req'.apiKey[1].id IN
          /\ RowOf(api_keys', id) = [RowOf(api_keys, id) EXCEPT !.last_used = clock]
          /\ {r \in api_keys' : r.id # id} = {r \in api_keys : r.id # id}
          /\ Cardinality(api_keys') = Cardinality(api_keys)
          /\ exercises' = exercises /\ seq' = seq]_vars

\* A request for an id that no exercise has was answered 404 in the second
\* second, and the credential issued in the first carries that time.
C28_Witness ==
    /\ ReqDone /\ Authenticated /\ req.response.status = 404
    /\ clock = 2
    /\ RowOf(api_keys, req.apiKey[1].id).last_used = 2
    /\ RowOf(api_keys, req.apiKey[1].id).created_at = 1

-----------------------------------------------------------------------------
(* Interleavings of the credential store calls, checked under Spec *)

C30_UniqueIdsAndDigests ==
    [][/\ \A r, q \in api_keys' :
            r # q => (r.id # q.id /\ r.key_hash # q.key_hash)
       /\ \A p \in Procs :
            InsertStep(p) =>
                /\ slot'[p].id > seq
                /\ \A r \in api_keys : r.id # slot'[p].id
                /\ \A id \in DOMAIN issued : id # slot'[p].id
                /\ api_keys \subseteq api_keys'
                /\ Cardinality(api_keys' \ api_keys) = 1
                /\ \A r \in api_keys' \ api_keys : r.id = slot'[p].id]_vars

\* Two createApiKey calls have returned to their two callers with
\* different ids, and the table holds their two rows.
C30_Witness ==
    /\ CreateDone("c1") /\ CreateDone("c2")
    /\ slot["c1"].id # slot["c2"].id
    /\ Cardinality(api_keys) = 2

=============================================================================
